---- MODULE Spec2Model ----
(***************************************************************************)
(* The orbit camera controller of orbit-camera.ts (setupOrbitCameraRaw).   *)
(*                                                                         *)
(* Numbers.  A JavaScript number is modelled in fixed point: lengths and   *)
(* pixel quantities are integers in units of 1/FP, angles and the values   *)
(* of sin, cos and the arc-sine argument in units of 1/AP.  NaN and        *)
(* +Infinity are two reserved values; every arithmetic operator that can   *)
(* meet NaN propagates it as IEEE-754 does.  A store into a Float32Array   *)
(* rounds to the coarser grid F32Grid, as Math.fround drops the low bits   *)
(* of a double.                                                            *)
(*                                                                         *)
(* Matrices.  The 4x4 matrices of wgpu-matrix are kept as terms (lookAt of *)
(* an eye and a target, perspective of an aspect ratio, invert and         *)
(* transpose of a term): two buffers hold the same matrix when they were   *)
(* computed from the same inputs.                                          *)
(***************************************************************************)
EXTENDS Integers, Sequences, FiniteSets, TLC

\* fixed-point resolution of lengths / pixels, and of angles / trig values
FP == 10^2
AP == 10^4
F32Grid == FP \div 10
NaN == 0 - 2^30
Inf == 2^30

\* ---- bounds of the model ------------------------------------------------
MaxCalls == 2
MaxTouches == 2

\* ---- Math.* ---------------------------------------------------------------
Pi == 31416
HalfPi == Pi \div 2
TwoPi == 2 * Pi

Abs(a) == IF a < 0 THEN -a ELSE a
Sign(a) == IF a < 0 THEN -1 ELSE 1
\* division rounded to nearest, symmetric about 0 (b > 0)
RoundDiv(a, b) == Sign(a) * ((2 * Abs(a) + b) \div (2 * b))

Add(a, b) == IF a = NaN \/ b = NaN THEN NaN ELSE a + b
\* product of a value and an AP-scaled factor
Mul(a, b) == IF a = NaN \/ b = NaN THEN NaN ELSE RoundDiv(a * b, AP)
\* quotient a / b as an AP-scaled ratio; 0 / 0 is NaN
Div(a, b) ==
    IF a = NaN \/ b = NaN THEN NaN
    ELSE IF b = 0 THEN (IF a = 0 THEN NaN ELSE IF a > 0 THEN Inf ELSE -Inf)
    ELSE RoundDiv(a * AP, b)

\* Math.min / Math.max: NaN if either argument is NaN
MathMin(a, b) == IF a = NaN \/ b = NaN THEN NaN ELSE IF a < b THEN a ELSE b
MathMax(a, b) == IF a = NaN \/ b = NaN THEN NaN ELSE IF a > b THEN a ELSE b

RECURSIVE SqrtSearch(_, _, _)
SqrtSearch(n, lo, hi) ==
    IF hi - lo <= 1 THEN lo
    ELSE LET mid == (lo + hi) \div 2
         IN  IF mid * mid <= n THEN SqrtSearch(n, mid, hi)
                               ELSE SqrtSearch(n, lo, mid)
\* Math.sqrt, rounded to nearest
MathSqrt(n) ==
    LET r == SqrtSearch(n, 0, 46341)
    IN  IF n - r * r > r THEN r + 1 ELSE r

\* sine on [0, pi/2] by its Taylor series
SinQ(x) ==
    LET x2 == RoundDiv(x * x, AP)
        t3 == RoundDiv(RoundDiv(x * x2, AP), 6)
        t5 == RoundDiv(RoundDiv(t3 * x2, AP), 20)
        t7 == RoundDiv(RoundDiv(t5 * x2, AP), 42)
        t9 == RoundDiv(RoundDiv(t7 * x2, AP), 72)
    IN  x - t3 + t5 - t7 + t9
MathSin(a) ==
    IF a = NaN THEN NaN
    ELSE LET m == a % TwoPi
             s == IF m > Pi THEN m - TwoPi ELSE m
             q == IF Abs(s) > HalfPi THEN Pi - Abs(s) ELSE Abs(s)
         IN  Sign(s) * SinQ(q)
MathCos(a) == IF a = NaN THEN NaN ELSE MathSin(a + HalfPi)

RECURSIVE AsinSearch(_, _, _)
AsinSearch(t, lo, hi) ==
    IF hi - lo <= 1
    THEN IF t - SinQ(lo) <= SinQ(hi) - t THEN lo ELSE hi
    ELSE LET mid == (lo + hi) \div 2
         IN  IF SinQ(mid) <= t THEN AsinSearch(t, mid, hi)
                               ELSE AsinSearch(t, lo, mid)
\* Math.asin: NaN for NaN and for an argument outside [-1, 1]
MathAsin(t) ==
    IF t = NaN \/ Abs(t) > AP THEN NaN
    ELSE IF Abs(t) = AP THEN Sign(t) * HalfPi
    ELSE Sign(t) * AsinSearch(Abs(t), 0, HalfPi)
\* Math.atan2(y, x); atan2(0, 0) = 0
MathAtan2(y, x) ==
    LET h == MathSqrt(y * y + x * x)
        s == MathAsin(Div(Abs(y), h))
    IN  IF h = 0 THEN 0
        ELSE IF x >= 0 THEN Sign(y) * s ELSE Sign(y) * (Pi - s)

\* a store into a Float32Array element
F32(v) == IF v = NaN \/ Abs(v) = Inf THEN v ELSE RoundDiv(v, F32Grid) * F32Grid
F32Vec(v) == [i \in DOMAIN v |-> F32(v[i])]

\* ---- wgpu-matrix, as terms -------------------------------------------------
Vec3(v) == <<F32(v[1]), F32(v[2]), F32(v[3])>>
LookAt(eye, tgt) == [op |-> "lookAt", eye |-> Vec3(eye), target |-> Vec3(tgt)]
Perspective(aspect) == [op |-> "perspective", aspect |-> aspect]
Invert(mat) == [op |-> "invert", of |-> mat]
Transpose(mat) == [op |-> "transpose", of |-> mat]

\* ---- the inputs the environment may supply -------------------------------
\* CameraOptions as passed by a caller (fields left out take the defaults)
AppOptions ==
    [initPos |-> <<-10 * FP, 4 * FP, -8 * FP, FP>>, target |-> <<0, FP, 0, FP>>,
     minZoom |-> 8 * FP, maxZoom |-> 40 * FP]
AboveOptions ==
    [initPos |-> <<0, 5 * FP, 0, FP>>, minZoom |-> 8 * FP, maxZoom |-> 40 * FP,
     invertCamera |-> TRUE]
CoincidentOptions == [initPos |-> <<0, 0, 0, FP>>]
ZoomedOutOptions ==
    [initPos |-> <<0, FP, 40 * FP, FP>>, target |-> <<0, FP, 0, FP>>,
     minZoom |-> 8 * FP, maxZoom |-> 40 * FP]
Configs == {AppOptions, AboveOptions, CoincidentOptions, ZoomedOutOptions}
\* arguments of a later targetCamera call: <<newPos, newTarget>>
RetargetPairs ==
    { <<AppOptions.initPos, AppOptions.target>>,
      <<(<<0, FP, 0, FP>>), (<<0, FP, 0, FP>>)>> }
\* canvas.clientWidth, canvas.clientHeight
ViewSizes == { <<800, 600>>, <<600, 600>>, <<800, 0>> }
\* WheelEvent.deltaY
WheelDeltas == { -10000, -100, 1000 }
\* clientX, clientY of a pointer or a touch
Points == { <<0, 0>>, <<36, 48>>, <<60, 80>> }
\* the element a touch started on
TouchTargets == { "canvas", "outside" }

VARIABLES
    options,        \* Required<CameraOptions>
    state,          \* [target, radius, pitch, yaw]
    tmpView, tmpProj, tmpViewInv, tmpProjInv,
    cameraData,     \* the Float32Array handed to the callback
    canvas,         \* [clientWidth, clientHeight]
    isDragging, prevX, prevY, lastPinchDist,
    listeners,      \* registered <<target, type>> event listeners
    observed,       \* the ResizeObserver observes the canvas
    touches,        \* the touches now on the screen, in order of start
    sinkCalls,      \* number of callback invocations so far
    lastCall,       \* the function the last step ran, with its arguments
    ghost           \* what the events so far were; read by no handler

camVars == <<state, tmpView, tmpProj, tmpViewInv, tmpProjInv, cameraData, sinkCalls>>
gestureVars == <<isDragging, prevX, prevY, lastPinchDist>>
vars == <<options, state, tmpView, tmpProj, tmpViewInv, tmpProjInv, cameraData,
          canvas, isDragging, prevX, prevY, lastPinchDist, listeners, observed,
          touches, sinkCalls, lastCall, ghost>>

\* ---- setupOrbitCameraRaw ----------------------------------------------------
defaults ==
    [target |-> <<0, 0, 0, FP>>, minZoom |-> 1 * FP, maxZoom |-> 100 * FP,
     invertCamera |-> FALSE]
\* { ...defaults, ...partialOptions }
MergeOptions(partial) ==
    [k \in DOMAIN defaults \cup DOMAIN partial |->
        IF k \in DOMAIN partial THEN partial[k] ELSE defaults[k]]

CanvasListeners ==
    { <<"canvas", "wheel">>, <<"canvas", "mousedown">>, <<"canvas", "touchstart">>,
      <<"canvas", "touchmove">> }
WindowListeners ==
    { <<"window", "mouseup">>, <<"window", "touchend">>, <<"window", "mousemove">>,
      <<"window", "touchmove">> }

\* pos[3] ?? 1
Comp4(v) == IF Len(v) >= 4 THEN v[4] ELSE FP

\* the contents of cameraData after writeCameraToBuffer
Buffer(pos, tgt, view, proj, viewInv, projInv) ==
    [position |-> <<F32(pos[1]), F32(pos[2]), F32(pos[3]), F32(Comp4(pos))>>,
     targetPos |-> <<F32(tgt[1]), F32(tgt[2]), F32(tgt[3]), F32(Comp4(tgt))>>,
     view |-> Transpose(view),
     projection |-> Transpose(proj),
     viewInverse |-> Transpose(viewInv),
     projectionInverse |-> Transpose(projInv)]

calculatePos(st) ==
    LET x == Mul(Mul(st.radius, MathSin(st.yaw)), MathCos(st.pitch))
        y == Mul(st.radius, MathSin(st.pitch))
        z == Mul(Mul(st.radius, MathCos(st.yaw)), MathCos(st.pitch))
    IN  <<Add(st.target[1], x), Add(st.target[2], y), Add(st.target[3], z), FP>>

\* a clamp that forgets its upper limit
clamp_NoUpper(v, lo, hi) == MathMax(lo, v)
\* clamp, lines 108-110
clamp(v, lo, hi) == MathMax(lo, MathMin(hi, v))

\* canvas.clientWidth / canvas.clientHeight
Aspect(cv) == Div(cv.clientWidth, cv.clientHeight)

\* the state targetCamera derives from the two points
TargetState(newPos, newTarget) ==
    LET dx == newPos[1] - newTarget[1]
        dy == newPos[2] - newTarget[2]
        dz == newPos[3] - newTarget[3]
        r == MathSqrt(dx * dx + dy * dy + dz * dz)
    IN  [target |-> F32Vec(newTarget), radius |-> r, yaw |-> MathAtan2(dx, dz),
         pitch |-> MathAsin(Div(dy, r))]

\* a write that fills cameraData and never invokes the callback
writeCameraToBuffer_Silent(pos, tgt, view, proj, viewInv, projInv) ==
    /\ cameraData' = Buffer(pos, tgt, view, proj, viewInv, projInv)
    /\ UNCHANGED sinkCalls
\* writeCameraToBuffer: fills cameraData and invokes the callback on it
writeCameraToBuffer(pos, tgt, view, proj, viewInv, projInv) ==
    /\ cameraData' = Buffer(pos, tgt, view, proj, viewInv, projInv)
    /\ sinkCalls' = sinkCalls + 1

InitWith(configs, sizes) ==
    \E partial \in configs, size \in sizes :
        LET o == MergeOptions(partial)
            view == LookAt(o.initPos, o.target)
            cv == [clientWidth |-> size[1], clientHeight |-> size[2]]
            proj == Perspective(Aspect(cv))
        IN  /\ options = o
            /\ canvas = cv
            /\ state = TargetState(o.initPos, o.target)
            /\ tmpView = view
            /\ tmpProj = proj
            /\ tmpViewInv = Invert(view)
            /\ tmpProjInv = Invert(proj)
            /\ cameraData = Buffer(o.initPos, o.target, view, proj, Invert(view), Invert(proj))
            /\ sinkCalls = 1
            /\ lastCall = [fn |-> "targetCamera", args |-> o.initPos \o o.target]
            /\ isDragging = FALSE
            /\ prevX = 0
            /\ prevY = 0
            /\ lastPinchDist = 0
            /\ listeners = CanvasListeners \cup WindowListeners
            /\ observed = TRUE
            /\ touches = <<>>
            /\ ghost = [pointer |-> <<prevX, prevY>>, buttonDown |-> FALSE,
                        canvasStart |-> FALSE, fresh |-> FALSE]

Init == InitWith(Configs, {<<800, 600>>})

\* ---- the camera functions --------------------------------------------------
\* a step that runs no camera function
NoCall ==
    /\ UNCHANGED camVars
    /\ lastCall' = [fn |-> "none", args |-> <<>>]

\* targetCamera(newPos, newTarget), lines 112-128
targetCamera(newPos, newTarget) ==
    LET view == LookAt(newPos, newTarget)
        proj == Perspective(Aspect(canvas))
    IN  /\ sinkCalls < MaxCalls
        /\ state' = TargetState(newPos, newTarget)
        /\ tmpView' = view
        /\ tmpProj' = proj
        /\ tmpViewInv' = Invert(view)
        /\ tmpProjInv' = Invert(proj)
        /\ writeCameraToBuffer(newPos, newTarget, view, proj, Invert(view), Invert(proj))
        /\ lastCall' = [fn |-> "targetCamera", args |-> newPos \o newTarget]

\* sens, and the pitch guard 0.01, in angle units
Sens == (5 * AP) \div 1000
PitchGuard == AP \div 100
PitchMax == HalfPi - PitchGuard

\* a rotation that leaves the pitch unclamped
RotatedState_Unclamped(st, dx, dy, invert) ==
    LET inv == IF invert THEN -1 ELSE 1
    IN  [st EXCEPT !.yaw = st.yaw + (-dx) * Sens * inv,
                   !.pitch = Add(st.pitch, dy * Sens * inv)]
\* rotateCamera, lines 133-137: the state after rotateCamera(dx, dy), dx and dy in pixels
RotatedState(st, dx, dy, invert) ==
    LET inv == IF invert THEN -1 ELSE 1
    IN  [st EXCEPT !.yaw = st.yaw + (-dx) * Sens * inv,
                   !.pitch = clamp(Add(st.pitch, dy * Sens * inv), -PitchMax, PitchMax)]

\* a zoom that moves the radius the other way
ZoomedState_Reversed(st, delta, lo, hi) ==
    [st EXCEPT !.radius = clamp(st.radius - RoundDiv(delta * 5, 100), lo, hi)]
\* the state after zoomCamera(delta), delta in units of 1/FP
ZoomedState(st, delta, lo, hi) ==
    [st EXCEPT !.radius = clamp(st.radius + RoundDiv(delta * 5, 100), lo, hi)]

\* a tail that also recomputes the projection, from a square viewport
Reposition_Reprojects(st) ==
    LET pos == calculatePos(st)
        view == LookAt(pos, st.target)
        proj == Perspective(AP)
    IN  /\ state' = st
        /\ tmpView' = view
        /\ tmpViewInv' = Invert(view)
        /\ tmpProj' = proj
        /\ tmpProjInv' = Invert(proj)
        /\ writeCameraToBuffer(pos, st.target, view, proj, Invert(view), Invert(proj))
\* the tail shared by rotateCamera and zoomCamera: position from the new state,
\* view and its inverse recomputed, projection kept, buffer written
Reposition(st) ==
    LET pos == calculatePos(st)
        view == LookAt(pos, st.target)
    IN  /\ state' = st
        /\ tmpView' = view
        /\ tmpViewInv' = Invert(view)
        /\ UNCHANGED <<tmpProj, tmpProjInv>>
        /\ writeCameraToBuffer(pos, st.target, view, tmpProj, Invert(view), tmpProjInv)

rotateCamera(dx, dy) ==
    /\ sinkCalls < MaxCalls
    /\ Reposition(RotatedState(state, dx, dy, options.invertCamera))
    /\ lastCall' = [fn |-> "rotateCamera", args |-> <<dx, dy>>]

zoomCamera(delta) ==
    /\ sinkCalls < MaxCalls
    /\ Reposition(ZoomedState(state, delta, options.minZoom, options.maxZoom))
    /\ lastCall' = [fn |-> "zoomCamera", args |-> <<delta>>]

\* the ResizeObserver callback, lines 153-158
resizeCallback(cv) ==
    LET proj == Perspective(Aspect(cv))
        pos == calculatePos(state)
    IN  /\ sinkCalls < MaxCalls
        /\ tmpProj' = proj
        /\ tmpProjInv' = Invert(proj)
        /\ UNCHANGED <<state, tmpView, tmpViewInv>>
        /\ writeCameraToBuffer(pos, state.target, tmpView, proj, tmpViewInv, Invert(proj))
        /\ lastCall' = [fn |-> "resizeObserver", args |-> <<>>]

\* ---- the events --------------------------------------------------------------
\* The history of the events, kept beside the controller's own variables:
\*   pointer      where the latest mousedown or mousemove reported the mouse
\*                (at the start, where prevX and prevY take it to be),
\*   buttonDown   a mouse button is held,
\*   canvasStart  a mousedown or touchstart was delivered to the canvas since
\*                the latest state with isDragging false, no touch and no button,
\*   fresh        lastPinchDist was written since the number of touches last
\*                became two.
Record(ptr, btn, started, fr) ==
    ghost' = [pointer |-> ptr, buttonDown |-> btn,
              canvasStart |-> IF started THEN TRUE
                              ELSE IF touches' = <<>> /\ ~btn /\ ~isDragging' THEN FALSE
                              ELSE ghost.canvasStart,
              fresh |-> fr]

Has(target, type) == <<target, type>> \in listeners

\* distance between two touches, in units of 1/FP pixel
PinchDist(ts) ==
    LET dx == ts[1].x - ts[2].x
        dy == ts[1].y - ts[2].y
    IN  MathSqrt((dx * dx + dy * dy) * FP * FP)

\* a wheel handler that ignores the wheel during a drag
Wheel_WhenIdle(deltaY) ==
    /\ IF Has("canvas", "wheel") /\ ~isDragging THEN zoomCamera(deltaY * FP) ELSE NoCall
    /\ UNCHANGED <<options, canvas, gestureVars, listeners, observed, touches, ghost>>
\* a wheel event over the canvas
Wheel(deltaY) ==
    /\ IF Has("canvas", "wheel") THEN zoomCamera(deltaY * FP) ELSE NoCall
    /\ UNCHANGED <<options, canvas, gestureVars, listeners, observed, touches, ghost>>

\* a mouse button pressed over the canvas
MouseDown(p) ==
    /\ IF Has("canvas", "mousedown")
       THEN /\ isDragging' = TRUE
            /\ prevX' = p[1]
            /\ prevY' = p[2]
            /\ UNCHANGED lastPinchDist
       ELSE UNCHANGED gestureVars
    /\ NoCall
    /\ UNCHANGED <<options, canvas, listeners, observed, touches>>
    /\ Record(p, TRUE, TRUE, ghost.fresh)

\* a mouse button released anywhere in the window
MouseUp ==
    /\ IF Has("window", "mouseup")
       THEN isDragging' = FALSE /\ UNCHANGED <<prevX, prevY, lastPinchDist>>
       ELSE UNCHANGED gestureVars
    /\ NoCall
    /\ UNCHANGED <<options, canvas, listeners, observed, touches>>
    /\ Record(ghost.pointer, FALSE, FALSE, ghost.fresh)

\* the mouse moved to p, anywhere in the window
MouseMove(p) ==
    /\ IF Has("window", "mousemove")
       THEN /\ prevX' = p[1]
            /\ prevY' = p[2]
            /\ UNCHANGED <<isDragging, lastPinchDist>>
            /\ IF isDragging THEN rotateCamera(p[1] - prevX, p[2] - prevY) ELSE NoCall
       ELSE UNCHANGED gestureVars /\ NoCall
    /\ UNCHANGED <<options, canvas, listeners, observed, touches>>
    /\ Record(p, ghost.buttonDown, FALSE, ghost.fresh)

At(ts, p) == \E i \in 1..Len(ts) : ts[i].x = p[1] /\ ts[i].y = p[2]

\* a finger comes down at p, on the canvas or outside it
TouchStart(p, target) ==
    LET ts == Append(touches, [x |-> p[1], y |-> p[2], target |-> target])
    IN  /\ Len(touches) < MaxTouches
        /\ ~At(touches, p)
        /\ touches' = ts
        /\ IF target = "canvas" /\ Has("canvas", "touchstart")
           THEN IF Len(ts) = 1
                THEN /\ isDragging' = TRUE
                     /\ prevX' = ts[1].x
                     /\ prevY' = ts[1].y
                     /\ UNCHANGED lastPinchDist
                ELSE IF Len(ts) = 2
                THEN /\ isDragging' = FALSE
                     /\ lastPinchDist' = PinchDist(ts)
                     /\ UNCHANGED <<prevX, prevY>>
                ELSE UNCHANGED gestureVars
           ELSE UNCHANGED gestureVars
        /\ NoCall
        /\ UNCHANGED <<options, canvas, listeners, observed>>
        /\ Record(ghost.pointer, ghost.buttonDown, target = "canvas",
                  target = "canvas" /\ Len(ts) = 2)

Remove(ts, i) == [j \in 1..(Len(ts) - 1) |-> IF j < i THEN ts[j] ELSE ts[j + 1]]

\* finger i is lifted
TouchEnd(i) ==
    LET ts == Remove(touches, i)
    IN  /\ i \in 1..Len(touches)
        /\ touches' = ts
        /\ IF Has("window", "touchend")
           THEN IF Len(ts) = 1
                THEN /\ isDragging' = TRUE
                     /\ prevX' = ts[1].x
                     /\ prevY' = ts[1].y
                     /\ UNCHANGED lastPinchDist
                ELSE isDragging' = FALSE /\ UNCHANGED <<prevX, prevY, lastPinchDist>>
           ELSE UNCHANGED gestureVars
        /\ NoCall
        /\ UNCHANGED <<options, canvas, listeners, observed>>
        /\ Record(ghost.pointer, ghost.buttonDown, FALSE, FALSE)

\* a pinch handler that zooms by the whole change of distance, not half of it
TouchMove_WholeChange(i, p) ==
    LET ts == [touches EXCEPT ![i].x = p[1], ![i].y = p[2]]
    IN  /\ i \in 1..Len(touches)
        /\ ~At(touches, p)
        /\ touches' = ts
        /\ IF touches[i].target = "canvas" /\ Has("canvas", "touchmove") /\ Len(ts) = 2
           THEN /\ zoomCamera(lastPinchDist - PinchDist(ts))
                /\ lastPinchDist' = PinchDist(ts)
                /\ UNCHANGED <<isDragging, prevX, prevY>>
           ELSE IF Has("window", "touchmove") /\ Len(ts) = 1 /\ isDragging
           THEN /\ rotateCamera(ts[1].x - prevX, ts[1].y - prevY)
                /\ prevX' = ts[1].x
                /\ prevY' = ts[1].y
                /\ UNCHANGED <<isDragging, lastPinchDist>>
           ELSE UNCHANGED gestureVars /\ NoCall
        /\ UNCHANGED <<options, canvas, listeners, observed>>
        /\ Record(ghost.pointer, ghost.buttonDown, FALSE,
                  IF touches[i].target = "canvas" /\ Len(ts) = 2 THEN TRUE ELSE ghost.fresh)
\* finger i moves to p: the canvas listener runs if the touch started on the
\* canvas, then the event bubbles to the window listener
TouchMove(i, p) ==
    LET ts == [touches EXCEPT ![i].x = p[1], ![i].y = p[2]]
    IN  /\ i \in 1..Len(touches)
        /\ ~At(touches, p)
        /\ touches' = ts
        /\ IF touches[i].target = "canvas" /\ Has("canvas", "touchmove") /\ Len(ts) = 2
           THEN /\ zoomCamera(RoundDiv(lastPinchDist - PinchDist(ts), 2))
                /\ lastPinchDist' = PinchDist(ts)
                /\ UNCHANGED <<isDragging, prevX, prevY>>
           ELSE IF Has("window", "touchmove") /\ Len(ts) = 1 /\ isDragging
           THEN /\ rotateCamera(ts[1].x - prevX, ts[1].y - prevY)
                /\ prevX' = ts[1].x
                /\ prevY' = ts[1].y
                /\ UNCHANGED <<isDragging, lastPinchDist>>
           ELSE UNCHANGED gestureVars /\ NoCall
        /\ UNCHANGED <<options, canvas, listeners, observed>>
        /\ Record(ghost.pointer, ghost.buttonDown, FALSE,
                  IF touches[i].target = "canvas" /\ Len(ts) = 2 THEN TRUE ELSE ghost.fresh)

\* the canvas is laid out at a new client size
Resize(size) ==
    /\ canvas' = [clientWidth |-> size[1], clientHeight |-> size[2]]
    /\ IF observed THEN resizeCallback(canvas') ELSE NoCall
    /\ UNCHANGED <<options, gestureVars, listeners, observed, touches, ghost>>

\* the application calls targetCamera
Retarget(newPos, newTarget) ==
    /\ targetCamera(newPos, newTarget)
    /\ UNCHANGED <<options, canvas, gestureVars, listeners, observed, touches, ghost>>

\* a cleanup that toggles the window listeners instead of removing them
Removed_Toggle(ls) == (ls \ WindowListeners) \cup (WindowListeners \ ls)
\* the listeners cleanup() leaves registered
Removed(ls) == ls \ WindowListeners

\* the application calls cleanup
cleanup ==
    /\ listeners' = Removed(listeners)
    /\ observed' = FALSE
    /\ UNCHANGED camVars
    /\ lastCall' = [fn |-> "cleanup", args |-> <<IF observed THEN 1 ELSE 2>>]
    /\ UNCHANGED <<options, canvas, gestureVars, touches, ghost>>

\* ---- specifications ---------------------------------------------------------
\* mouse and wheel input, over every configuration
MousePoints == { <<0, 0>>, <<60, 80>> }
PointerNext ==
    \/ \E d \in WheelDeltas : Wheel(d)
    \/ \E p \in MousePoints : MouseDown(p)
    \/ MouseUp
    \/ \E p \in MousePoints : MouseMove(p)
    \/ \E size \in ViewSizes : Resize(size)
    \/ \E pair \in RetargetPairs : Retarget(pair[1], pair[2])
    \/ cleanup
SpecPointer == Init /\ [][PointerNext]_vars

\* wheel and touch input with a mouse that stays at the origin, over the
\* application's configuration
GestureInit == InitWith({AppOptions}, {<<800, 600>>})
GestureNext ==
    \/ Wheel(1000)
    \/ MouseDown(<<0, 0>>)
    \/ MouseUp
    \/ MouseMove(<<0, 0>>)
    \/ \E p \in Points : TouchStart(p, "canvas")
    \/ \E i \in 1..MaxTouches : TouchEnd(i)
    \/ \E i \in 1..MaxTouches, p \in Points : TouchMove(i, p)
    \/ Resize(<<800, 600>>)
    \/ Retarget(AppOptions.initPos, AppOptions.target)
    \/ cleanup
Spec == GestureInit /\ [][GestureNext]_vars

\* touches that start on the canvas or outside it, next to the mouse
TouchNext ==
    \/ \E p \in MousePoints : MouseDown(p)
    \/ MouseUp
    \/ \E p \in MousePoints : MouseMove(p)
    \/ \E p \in Points, target \in TouchTargets : TouchStart(p, target)
    \/ \E i \in 1..MaxTouches : TouchEnd(i)
    \/ \E i \in 1..MaxTouches, p \in Points : TouchMove(i, p)
SpecTouch == GestureInit /\ [][TouchNext]_vars

\* ---- properties ----------------------------------------------------------------
\* the functions that end in writeCameraToBuffer
CameraFns == { "targetCamera", "rotateCamera", "zoomCamera", "resizeObserver" }
\* cleanup() has been called: only cleanup stops the observer
Disposed == ~observed
\* newPos and newTarget of a targetCamera call name the same point
Coincident(args) == args[1] = args[5] /\ args[2] = args[6] /\ args[3] = args[7]
RadiusInRange(r) == options.minZoom <= r /\ r <= options.maxZoom

\* C1 (as claimed): once cleanup() has been called, no input event (a step
\* other than a direct targetCamera or cleanup call) changes radius, yaw, pitch,
\* target, the dragging flag or the pinch baseline, or invokes the sink.
C1_NoReactionAfterCleanup ==
    [][(Disposed /\ lastCall'.fn \notin {"targetCamera", "cleanup"})
          => UNCHANGED <<state, isDragging, lastPinchDist, sinkCalls>>]_vars

C4_ResizeKeepsPose ==
    [][lastCall'.fn = "resizeObserver"
          => /\ cameraData'.position = cameraData.position
             /\ cameraData'.targetPos = cameraData.targetPos
             /\ cameraData'.view = cameraData.view
             /\ cameraData'.viewInverse = cameraData.viewInverse]_vars

\* C5 (as claimed): the pitch is a defined number in every state, also when the
\* position passed to targetCamera coincides with the target.
C5_PitchDefined == state.pitch # NaN

\* C6 (as claimed): in every state the radius lies within [minZoom, maxZoom].
C6_RadiusAlwaysInRange == RadiusInRange(state.radius)

\* C7 (as claimed): in every state reached from position # target the pitch lies
\* within (-pi/2 + 0.01, pi/2 - 0.01).
C7_PitchAlwaysGuarded ==
    state.pitch # NaN => (-PitchMax < state.pitch /\ state.pitch < PitchMax)

\* C8: construction invokes the sink once; every step that runs targetCamera,
\* rotateCamera, zoomCamera or the resize callback invokes it exactly once more,
\* and no other step invokes it; mouse-down, mouse-up, touch-start, touch-end
\* and a mouse-move while not dragging run none of these functions.
C8_SinkOncePerReaction ==
    /\ sinkCalls = 1
    /\ [][/\ sinkCalls' = sinkCalls + (IF lastCall'.fn \in CameraFns THEN 1 ELSE 0)
          /\ ( \/ \E p \in MousePoints : MouseDown(p)
               \/ MouseUp
               \/ \E p \in Points : TouchStart(p, "canvas")
               \/ \E i \in 1..MaxTouches : TouchEnd(i)
               \/ (~isDragging /\ \E p \in MousePoints : MouseMove(p)) )
                => (lastCall'.fn = "none" /\ sinkCalls' = sinkCalls)]_vars
\* a reaction has run, and a later event that runs none has left the count alone
C8_Witness == sinkCalls = 2 /\ lastCall.fn = "none" /\ isDragging

\* C9: zoomCamera(delta) sets the radius to radius + 0.05 * delta clamped to
\* [minZoom, maxZoom]: exactly maxZoom when the sum is at or above it, exactly
\* minZoom when at or below it, the sum itself in between; a positive delta
\* never lowers an in-range radius.
C9_ZoomSetsClampedRadius ==
    [][lastCall'.fn = "zoomCamera"
          => LET delta == lastCall'.args[1]
                 sum == state.radius + RoundDiv(delta * 5, 100)
             IN  /\ sum >= options.maxZoom => state'.radius = options.maxZoom
                 /\ sum <= options.minZoom => state'.radius = options.minZoom
                 /\ (options.minZoom < sum /\ sum < options.maxZoom)
                        => state'.radius = sum
                 /\ (delta > 0 /\ RadiusInRange(state.radius))
                        => state'.radius >= state.radius]_vars
\* zoom(-10000) from the radius zoom(1000) leaves, 40, has given exactly 8
C9_Witness ==
    /\ lastCall = [fn |-> "zoomCamera", args |-> <<-10000 * FP>>]
    /\ options.initPos = ZoomedOutOptions.initPos
    /\ state.radius = 8 * FP

\* C10: a cleanup() call on a controller that was already cleaned up changes
\* neither the registered listeners, nor the observer, nor any camera or
\* gesture state.
C10_CleanupIdempotent ==
    [][(Disposed /\ lastCall'.fn = "cleanup")
          => UNCHANGED <<listeners, observed, camVars, gestureVars>>]_vars
\* cleanup has been called a second time
C10_Witness == lastCall = [fn |-> "cleanup", args |-> <<2>>]

\* C11 (as claimed): the aspect ratio every projection was computed from is a
\* positive, finite number, whatever width and height the canvas reports.
C11_AspectPositiveFinite ==
    /\ tmpProj.aspect # NaN
    /\ tmpProj.aspect > 0
    /\ tmpProj.aspect < Inf

\* C12 (as claimed): in the buffer last written, the inverse view is the
\* inverse of the view in the same buffer, the inverse projection is the
\* inverse of the projection in the same buffer, and the view is the look-at
\* matrix of the position and target in the same buffer.
C12_BufferConsistent ==
    /\ cameraData.viewInverse = Transpose(Invert(cameraData.view.of))
    /\ cameraData.projectionInverse = Transpose(Invert(cameraData.projection.of))
    /\ cameraData.view = Transpose(LookAt(cameraData.position, cameraData.targetPos))

\* the step moves one of two touches, and the moved touch started on the canvas
PinchMove ==
    /\ Len(touches) = 2
    /\ Len(touches') = 2
    /\ \E i \in 1..2 : touches'[i] # touches[i] /\ touches[i].target = "canvas"
\* the step puts a second touch down, on the canvas
PinchStart ==
    /\ Len(touches) = 1
    /\ Len(touches') = 2
    /\ touches'[2].target = "canvas"

C15_WheelAlwaysZooms ==
    [][(~Disposed /\ Wheel(1000))
          => /\ lastCall' = [fn |-> "zoomCamera", args |-> <<1000 * FP>>]
             /\ UNCHANGED gestureVars]_vars
\* the wheel has zoomed in the middle of a mouse drag
C15_Witness ==
    /\ lastCall = [fn |-> "zoomCamera", args |-> <<1000 * FP>>]
    /\ isDragging
    /\ touches = <<>>

\* C16: a rotateCamera step leaves radius, target, the projection and its
\* inverse unchanged, a zoomCamera step leaves yaw, pitch, target, the
\* projection and its inverse unchanged; neither changes the dragging flag,
\* and the anchor and the pinch baseline change only as the calling handler
\* sets them (the anchor on a rotation, the baseline on a pinch).
C16_RotateAndZoomFrame ==
    [][/\ lastCall'.fn = "rotateCamera"
            => /\ state'.radius = state.radius
               /\ state'.target = state.target
               /\ UNCHANGED <<tmpProj, tmpProjInv, isDragging, lastPinchDist>>
               /\ cameraData'.projection = cameraData.projection
               /\ cameraData'.projectionInverse = cameraData.projectionInverse
       /\ lastCall'.fn = "zoomCamera"
            => /\ state'.yaw = state.yaw
               /\ state'.pitch = state.pitch
               /\ state'.target = state.target
               /\ UNCHANGED <<tmpProj, tmpProjInv, isDragging, prevX, prevY>>
               /\ cameraData'.projection = cameraData.projection
               /\ cameraData'.projectionInverse = cameraData.projectionInverse
               /\ (touches' = touches => UNCHANGED lastPinchDist)]_vars
\* a drag has turned the camera away from where construction left it
C16_Witness ==
    /\ lastCall.fn = "rotateCamera"
    /\ state.yaw # TargetState(options.initPos, options.target).yaw
    /\ state.pitch # TargetState(options.initPos, options.target).pitch

\* the application's onCleanup (main.ts) calls the camera's cleanup and then
\* destroys cameraBuffer, and calls cleanup nowhere else
cameraBufferDestroyed == ~observed

\* C19 (as claimed): once onCleanup() has run, no input event (wheel, mouse,
\* touch or resize) makes the camera invoke the sink, which writes to the
\* destroyed cameraBuffer.
C19_NoWriteToDestroyedBuffer ==
    [][(cameraBufferDestroyed
          /\ lastCall'.fn \in {"rotateCamera", "zoomCamera", "resizeObserver"})
            => sinkCalls' = sinkCalls]_vars

\* C14 (as claimed): a mousemove while dragging with the button held runs
\* rotateCamera with the difference between the position it reports and the
\* position the latest mousedown or mousemove reported, and sets the anchor to
\* the position it reports, whatever touch events came in between.
C14_MouseMoveRotatesByPointerDelta ==
    [][\A p \in MousePoints :
          (~Disposed /\ isDragging /\ ghost.buttonDown /\ MouseMove(p))
            => /\ lastCall' = [fn |-> "rotateCamera",
                               args |-> <<p[1] - ghost.pointer[1], p[2] - ghost.pointer[2]>>]
               /\ prevX' = p[1]
               /\ prevY' = p[2]]_vars

\* C17 (as claimed): whenever a two-touch-move on the canvas calls zoomCamera,
\* lastPinchDist was written by a two-touch-start or a two-touch-move since the
\* number of touches last became two.
C17_PinchBaselineFresh ==
    [][(PinchMove /\ lastCall'.fn = "zoomCamera") => ghost.fresh]_vars

\* C18 (as claimed): whenever a mousemove or touchmove runs rotateCamera, a
\* mousedown or touchstart was delivered to the canvas since the latest state
\* with isDragging false, no touch down and no button held.
C18_DragStartsOnCanvas ==
    [][lastCall'.fn = "rotateCamera" => ghost.canvasStart]_vars

====
